---- MODULE Spec2Model ----
(***************************************************************************)
(* Derived analytics of the statistics screen (src/app/(tabs)/stats.tsx):  *)
(* computeTimeline, buildInsights, the category segments, the month       *)
(* selector and the selected monthly aggregate; and of the data hooks      *)
(* behind it: useTransactions (src/hooks/useSupabase.ts), useBudgets and   *)
(* useRecurring (src/hooks/data/useBudgets.ts).                            *)
(*                                                                         *)
(* Dates: a 'YYYY-MM-DD' string is the record [y, m, d] with m 0-indexed   *)
(* (as Date.getMonth); an instant (a JavaScript Date) is a number of hours *)
(* since 2022-01-01T00:00Z; tz is the local UTC offset in hours.           *)
(* Money is an integer; a percentage is an exact rational [num, den].      *)
(* Daylight-saving shifts are left out: the offset is constant. An insight *)
(* is its kind and the text it cites; emoji, wording and colours are not   *)
(* modelled.                                                               *)
(***************************************************************************)
EXTENDS Integers, Sequences, FiniteSets, TLC

VARIABLES
    tz,              \* local UTC offset of the device, in hours
    now,             \* the instant `new Date()` returns
    year, month,     \* the selected (year, month), month 0-indexed
    transactions,    \* the transactions snapshot handed to the screen
    points,          \* computeTimeline: the daily series before downsampling
    timelineData,    \* computeTimeline: its return value
    expenseSegments, \* StatsScreen.expenseSegments
    incomeSegments,  \* StatsScreen.incomeSegments
    income, expenses, incomeDelta, expenseDelta, topExpCat, biggestTx,
                     \* the arguments of buildInsights
    insights,        \* buildInsights: its return value
    monthOffset,     \* StatsScreen.monthOffset
    stats,           \* useMonthlyStats: the monthly aggregates, oldest first
    selectedIndex,   \* StatsScreen.selectedIndex
    previous,        \* StatsScreen.previous
    userId,          \* the userId argument of the data hooks
    loading, error,  \* the loading and error state of a data hook
    fetches,         \* useTransactions: the fetches started so far, in start order
    serverRows,      \* backend: the transactions table, per user
    budgets,         \* useBudgets.budgets
    processed,       \* useRecurring.processed
    run,             \* useRecurring: the processDueTransactions call in progress
    recurringTable,  \* backend: the recurring_transactions table
    insertedTx       \* backend: the transactions inserted by processDueTransactions

tlVars == <<points, timelineData>>
segVars == <<expenseSegments, incomeSegments>>
insVars == <<income, expenses, incomeDelta, expenseDelta, topExpCat, biggestTx, insights>>
selVars == <<monthOffset, stats, selectedIndex, previous>>
hookVars == <<userId, loading, error, fetches, serverRows, budgets,
              processed, run, recurringTable, insertedTx>>
vars == <<tz, now, year, month, transactions, points, timelineData,
          expenseSegments, incomeSegments,
          income, expenses, incomeDelta, expenseDelta, topExpCat, biggestTx, insights,
          monthOffset, stats, selectedIndex, previous,
          userId, loading, error, fetches, serverRows, budgets,
          processed, run, recurringTable, insertedTx>>

NULL == "null"

\* the value null of the joined `categories` of a transaction
NoCategory == [name |-> NULL, color |-> NULL]

\* the value null of `biggestTx`
NoTx == [title |-> NULL, amount |-> 0]

\* the value undefined of stats[i] for an index outside the array
NoStat == [month |-> [y |-> 0, m |-> 0], income |-> 0, expenses |-> 0]

\* the month selection before the month selector and the aggregates take part
IdleSelector ==
    /\ monthOffset = 0 /\ stats = <<>> /\ selectedIndex = 0 /\ previous = NoStat

\* no call of processDueTransactions is in progress
NoRun == [pc |-> "idle", today |-> [y |-> 0, m |-> 0, d |-> 0], due |-> <<>>,
          i |-> 0, ok |-> TRUE]

\* the data hooks before their first effect, and an empty backend
IdleHooks ==
    /\ userId = NULL /\ loading = TRUE /\ error = NULL
    /\ fetches = <<>> /\ serverRows = <<>> /\ budgets = <<>>
    /\ processed = FALSE /\ run = NoRun
    /\ recurringTable = <<>> /\ insertedTx = <<>>

\* ---- bounds ----
MaxTx == 2

\* ---- calendar arithmetic behind the JavaScript Date ----
IsLeap(y) == (y % 4 = 0 /\ y % 100 # 0) \/ y % 400 = 0

DaysInMonth(y, m) ==
    IF m = 1 THEN (IF IsLeap(y) THEN 29 ELSE 28)
    ELSE IF m \in {3, 5, 8, 10} THEN 30 ELSE 31

RECURSIVE DaysBeforeYear(_)
DaysBeforeYear(y) ==
    IF y <= 2022 THEN 0
    ELSE DaysBeforeYear(y - 1) + (IF IsLeap(y - 1) THEN 366 ELSE 365)

RECURSIVE DaysBeforeMonth(_, _)
DaysBeforeMonth(y, m) ==
    IF m = 0 THEN 0 ELSE DaysBeforeMonth(y, m - 1) + DaysInMonth(y, m - 1)

\* Day number of a calendar date; month and day may be out of range and are
\* normalised the way the Date constructor does (month 12 is January of the
\* next year, day 0 is the last day of the previous month).
MonthStartTable ==
    [yy \in 2022..2025 |-> [mm \in 0..11 |-> DaysBeforeYear(yy) + DaysBeforeMonth(yy, mm)]]

DayNum(y, m, d) == MonthStartTable[y + (m \div 12)][m % 12] + d - 1

DateOfDayNumSlow(n) ==
    LET y == CHOOSE yy \in 2022..2024 :
                 DaysBeforeYear(yy) <= n /\ n < DaysBeforeYear(yy + 1)
        r == n - DaysBeforeYear(y)
        m == CHOOSE mm \in 0..11 :
                 DaysBeforeMonth(y, mm) <= r
                 /\ r < DaysBeforeMonth(y, mm) + DaysInMonth(y, mm)
    IN  [y |-> y, m |-> m, d |-> r - DaysBeforeMonth(y, m) + 1]

\* the calendar of 2022-2024, tabulated once
DayTable == [n \in 0..(DaysBeforeYear(2025) - 1) |-> DateOfDayNumSlow(n)]

DateOfDayNum(n) == DayTable[n]

\* new Date(year, month, day): local midnight of that day
LocalMidnight(y, m, d, off) == DayNum(y, m, d) * 24 - off

\* new Date('YYYY-MM-DD'): a date-only string is midnight UTC
ParseDate(s) == DayNum(s.y, s.m, s.d) * 24

\* date.toISOString().split('T')[0]: the UTC calendar date of an instant
ToISODate(t) == DateOfDayNum(t \div 24)

\* getFullYear / getMonth / getDate: the local calendar date of an instant
LocalDate(t, off) == DateOfDayNum((t + off) \div 24)

Date(y, m, d) == [y |-> y, m |-> m, d |-> d]

\* ---- computeTimeline ----
MaxPoints == 30

\* a filter that admits every transaction
InMonthAny(t, y, m, off) == TRUE

\* the filter predicate of lines 157-158
InMonth(t, y, m, off) ==
    LET d == ParseDate(t.transaction_date)
    IN  d >= LocalMidnight(y, m, 1, off) /\ d <= LocalMidnight(y, m + 1, 0, off)

RECURSIVE FilterMonth(_, _, _, _)
FilterMonth(txs, y, m, off) ==
    IF txs = <<>> THEN <<>>
    ELSE (IF InMonth(Head(txs), y, m, off) THEN <<Head(txs)>> ELSE <<>>)
         \o FilterMonth(Tail(txs), y, m, off)

\* Array.prototype.sort with the comparator of line 161 (stable)
RECURSIVE InsertByDate(_, _)
InsertByDate(s, t) ==
    IF s = <<>> THEN <<t>>
    ELSE IF ParseDate(Head(s).transaction_date) <= ParseDate(t.transaction_date)
         THEN <<Head(s)>> \o InsertByDate(Tail(s), t)
         ELSE <<t>> \o s

\* no sorting: the filtered list in its input order
SortByDateNone(s) == s

RECURSIVE SortByDate(_)
SortByDate(s) ==
    IF s = <<>> THEN <<>>
    ELSE InsertByDate(SortByDate(SubSeq(s, 1, Len(s) - 1)), s[Len(s)])

Delta(t) == IF t.type = "income" THEN t.amount ELSE 0 - t.amount

\* the loop of lines 166-172: byDate maps a date string to the running total
\* after the last transaction of that date
RECURSIVE ByDate(_, _, _)
ByDate(monthly, running, acc) ==
    IF monthly = <<>> THEN acc
    ELSE LET t == Head(monthly)
             r == running + Delta(t)
             key == t.transaction_date
         IN  ByDate(Tail(monthly), r,
                    [k \in DOMAIN acc \cup {key} |-> IF k = key THEN r ELSE acc[k]])

\* the loop of lines 175-188
RECURSIVE Expand(_, _, _, _, _, _, _, _)
Expand(day, lastDay, lastKnown, byDate, y, m, off, today) ==
    IF day > lastDay THEN <<>>
    ELSE LET d == LocalMidnight(y, m, day, off)
         IN  IF d > today THEN <<>>
             ELSE LET iso == ToISODate(d)
                      known == IF iso \in DOMAIN byDate THEN byDate[iso] ELSE lastKnown
                  IN  <<[date |-> iso, label |-> [day |-> day, month |-> m],
                         balance |-> known]>>
                      \o Expand(day + 1, lastDay, known, byDate, y, m, off, today)

\* a series with points only for the days that have a transaction
DailyPointsSparse(rawTransactions, y, m, off, today) ==
    LET endOfMonth == LocalMidnight(y, m + 1, 0, off)
        monthly == SortByDate(FilterMonth(rawTransactions, y, m, off))
        byDate == ByDate(monthly, 0, <<>>)
        HasEntry(p) == p.date \in DOMAIN byDate
    IN  IF Len(monthly) = 0 THEN <<>>
        ELSE SelectSeq(Expand(1, LocalDate(endOfMonth, off).d, 0,
                              byDate, y, m, off, today), HasEntry)

\* lines 152-188: the daily series
DailyPoints(rawTransactions, y, m, off, today) ==
    LET endOfMonth == LocalMidnight(y, m + 1, 0, off)
        monthly == SortByDate(FilterMonth(rawTransactions, y, m, off))
    IN  IF Len(monthly) = 0 THEN <<>>
        ELSE Expand(1, LocalDate(endOfMonth, off).d, 0,
                    ByDate(monthly, 0, <<>>), y, m, off, today)

\* Math.ceil(a / b) for positive integers
CeilDivFloor(a, b) == a \div b

CeilDiv(a, b) == (a + b - 1) \div b

RECURSIVE KeepStride(_, _, _, _)
KeepStride(pts, i, step, n) ==
    IF i >= n THEN <<>>
    ELSE (IF i % step = 0 \/ i = n - 1 THEN <<pts[i + 1]>> ELSE <<>>)
         \o KeepStride(pts, i + 1, step, n)

\* lines 190-195
Downsample(pts) ==
    IF Len(pts) > MaxPoints
    THEN KeepStride(pts, 0, CeilDiv(Len(pts), MaxPoints), Len(pts))
    ELSE pts

computeTimeline(rawTransactions, y, m, off, today) ==
    Downsample(DailyPoints(rawTransactions, y, m, off, today))

\* ---- inputs of the timeline specification ----
TimeZones == {0 - 5, 0, 1}
Targets == {[y |-> 2023, m |-> 1], [y |-> 2023, m |-> 11]}
Todays == {Date(2023, 1, 20), Date(2023, 11, 31)}
TxDates == {Date(2023, 1, 1), Date(2023, 1, 15), Date(2023, 1, 28),
            Date(2023, 2, 1), Date(2023, 11, 1), Date(2023, 11, 31)}
Amounts == {40, 100}
Types == {"income", "expense"}

TLTx == [transaction_date : TxDates, type : Types, amount : Amounts,
         category_id : {NULL}, categories : {NoCategory}, description : {NULL}]

InsertAt(s, i, t) == SubSeq(s, 1, i) \o <<t>> \o SubSeq(s, i + 1, Len(s))

\* .order('transaction_date', { ascending: false }): the snapshot is fetched
\* newest first; rows of one date come in any order
FetchOrdered(s) ==
    \A i \in 1..(Len(s) - 1) :
        DayNum(s[i].transaction_date.y, s[i].transaction_date.m, s[i].transaction_date.d)
        >= DayNum(s[i + 1].transaction_date.y, s[i + 1].transaction_date.m,
                  s[i + 1].transaction_date.d)

\* noon, local time, of the calendar day `today`
NoonOf(today, off) == LocalMidnight(today.y, today.m, today.d, off) + 12

IdleInsights ==
    /\ income = 0 /\ expenses = 0
    /\ incomeDelta = [num |-> 0, den |-> 1] /\ expenseDelta = [num |-> 0, den |-> 1]
    /\ topExpCat = NULL /\ biggestTx = NoTx /\ insights = <<>>

TLInit ==
    /\ tz \in TimeZones
    /\ \E t \in Todays : now = NoonOf(t, tz)
    /\ \E s \in Targets : year = s.y /\ month = s.m
    /\ transactions = <<>>
    /\ points = <<>>
    /\ timelineData = <<>>
    /\ expenseSegments = <<>> /\ incomeSegments = <<>>
    /\ IdleInsights
    /\ IdleSelector
    /\ IdleHooks

TLRender ==
    /\ points' = DailyPoints(transactions', year', month', tz, now)
    /\ timelineData' = Downsample(points')

\* a new snapshot with one more transaction reaches the screen
TLAddTransaction ==
    /\ Len(transactions) < MaxTx
    /\ \E t \in TLTx, i \in 0..Len(transactions) :
           /\ FetchOrdered(InsertAt(transactions, i, t))
           /\ transactions' = InsertAt(transactions, i, t)
    /\ UNCHANGED <<year, month>>
    /\ TLRender
    /\ UNCHANGED <<tz, now, segVars, insVars, selVars, hookVars>>

\* another month is passed to computeTimeline
TLSelectMonth ==
    /\ \E s \in Targets : (s.y # year \/ s.m # month) /\ year' = s.y /\ month' = s.m
    /\ UNCHANGED transactions
    /\ TLRender
    /\ UNCHANGED <<tz, now, segVars, insVars, selVars, hookVars>>

TLNext == TLAddTransaction \/ TLSelectMonth

SpecTimeline == TLInit /\ [][TLNext]_vars

\* ---- buildInsights ----
\* a percentage, kept exact: num / den with den > 0
Rat(n, d) == [num |-> n, den |-> d]

RatGEStrict(r, k) == r.num > k * r.den

RatGE(r, k) == r.num >= k * r.den

RatGTWeak(r, k) == r.num >= k * r.den

RatGT(r, k) == r.num > k * r.den

RatLTWeak(r, k) == r.num <= k * r.den

RatLT(r, k) == r.num < k * r.den

\* line 217: income > 0 ? (net / income) * 100 : 0
SavingsRate(inc, exp) ==
    IF inc > 0 THEN Rat((inc - exp) * 100, inc) ELSE Rat(0, 1)

Insight(kind, subject) == [kind |-> kind, subject |-> subject]


SliceFour(s) == SubSeq(s, 1, IF Len(s) < 4 THEN Len(s) ELSE 4)

\* insights.slice(0, 3)
SliceThree(s) == SubSeq(s, 1, IF Len(s) < 3 THEN Len(s) ELSE 3)

buildInsights(inc, exp, incDelta, expDelta, topCat, topAmt, biggest) ==
    LET savingsRate == SavingsRate(inc, exp)
        band ==
            IF RatGE(savingsRate, 20) THEN <<Insight("exceptional", NULL)>>
            ELSE IF RatGE(savingsRate, 15) THEN <<Insight("good", NULL)>>
            ELSE IF RatGT(savingsRate, 0) THEN <<Insight("encourage", NULL)>>
            ELSE IF RatLT(savingsRate, 0) THEN <<Insight("overspend", NULL)>>
            ELSE <<>>
        change ==
            IF RatGT(expDelta, 15)
            THEN <<Insight("spike", IF topCat # NULL THEN topCat ELSE "generic")>>
            ELSE IF RatLT(expDelta, 0 - 10) THEN <<Insight("drop", NULL)>>
            ELSE <<>>
        big == IF biggest # NoTx THEN <<Insight("biggest", biggest.title)>> ELSE <<>>
        growth == IF RatGT(incDelta, 5) THEN <<Insight("growth", NULL)>> ELSE <<>>
    IN  SliceThree(band \o change \o big \o growth)

\* ---- inputs of the insights specification ----
MaxMoney == 20
Money == 0..MaxMoney
IncomeDeltas == {Rat(0, 1), Rat(5, 1), Rat(11, 2)}
ExpenseDeltas == {Rat(0 - 21, 2), Rat(0 - 10, 1), Rat(0, 1), Rat(15, 1), Rat(31, 2)}
TopCats == {NULL, "Wohnen"}
BiggestTxs == {NoTx, [title |-> "Miete", amount |-> 100]}

TopAmt(cat) == IF cat = NULL THEN 0 ELSE 100

InsInit ==
    /\ tz = 0 /\ now = 0 /\ year = 2023 /\ month = 0
    /\ transactions = <<>> /\ points = <<>> /\ timelineData = <<>>
    /\ expenseSegments = <<>> /\ incomeSegments = <<>>
    /\ income = 0 /\ expenses = 0
    /\ incomeDelta = Rat(0, 1) /\ expenseDelta = Rat(0, 1)
    /\ topExpCat = NULL /\ biggestTx = NoTx
    /\ insights = <<>>
    /\ IdleSelector
    /\ IdleHooks

InsRender ==
    insights' = buildInsights(income', expenses', incomeDelta', expenseDelta',
                              topExpCat', TopAmt(topExpCat'), biggestTx')

InsFixed == UNCHANGED <<tz, now, year, month, transactions, tlVars, segVars, selVars, hookVars>>

\* the selected aggregate changes
InsSetIncome ==
    /\ \E i \in Money : i # income /\ income' = i
    /\ UNCHANGED <<expenses, incomeDelta, expenseDelta, topExpCat, biggestTx>>
    /\ InsRender /\ InsFixed

InsSetExpenses ==
    /\ \E e \in Money : e # expenses /\ expenses' = e
    /\ UNCHANGED <<income, incomeDelta, expenseDelta, topExpCat, biggestTx>>
    /\ InsRender /\ InsFixed

\* the month-over-month deltas change
InsSetIncomeDelta ==
    /\ \E i \in IncomeDeltas : i # incomeDelta /\ incomeDelta' = i
    /\ UNCHANGED <<income, expenses, expenseDelta, topExpCat, biggestTx>>
    /\ InsRender /\ InsFixed

InsSetExpenseDelta ==
    /\ \E e \in ExpenseDeltas : e # expenseDelta /\ expenseDelta' = e
    /\ UNCHANGED <<income, expenses, incomeDelta, topExpCat, biggestTx>>
    /\ InsRender /\ InsFixed

\* the top expense segment changes
InsSetTopCat ==
    /\ \E c \in TopCats : c # topExpCat /\ topExpCat' = c
    /\ UNCHANGED <<income, expenses, incomeDelta, expenseDelta, biggestTx>>
    /\ InsRender /\ InsFixed

\* the biggest transaction changes
InsSetBiggestTx ==
    /\ \E b \in BiggestTxs : b # biggestTx /\ biggestTx' = b
    /\ UNCHANGED <<income, expenses, incomeDelta, expenseDelta, topExpCat>>
    /\ InsRender /\ InsFixed

InsNext ==
    \/ InsSetIncome \/ InsSetExpenses \/ InsSetIncomeDelta
    \/ InsSetExpenseDelta \/ InsSetTopCat \/ InsSetBiggestTx

SpecInsights == InsInit /\ [][InsNext]_vars

\* ---- the category segments of the donut ----
\* lines 276-280: the local calendar month of the parsed date is the selected one
RECURSIVE monthTransactions(_, _, _, _)
monthTransactions(txs, y, m, off) ==
    IF txs = <<>> THEN <<>>
    ELSE LET d == LocalDate(ParseDate(Head(txs).transaction_date), off)
         IN  (IF d.y = y /\ d.m = m THEN <<Head(txs)>> ELSE <<>>)
             \o monthTransactions(Tail(txs), y, m, off)

RECURSIVE FilterType(_, _)
FilterType(txs, type) ==
    IF txs = <<>> THEN <<>>
    ELSE (IF Head(txs).type = type THEN <<Head(txs)>> ELSE <<>>)
         \o FilterType(Tail(txs), type)

\* t.category_id || 'other'
CatId(t) == IF t.category_id = NULL THEN "other" ELSE t.category_id

\* cat?.name ?? 'Sonstiges' and cat?.color ?? <default>
OrDefault(v, default) == IF v = NULL THEN default ELSE v

\* one iteration of the loop of lines 284-289; byCat is the object as the
\* sequence of its properties in creation order. A later transaction of a known
\* category writes the name and the colour of that transaction too.
AddToCatOverwrite(byCat, t, defaultColor) ==
    LET id == CatId(t)
        known == \E i \in 1..Len(byCat) : byCat[i].id = id
        fresh == [id |-> id,
                  name |-> OrDefault(t.categories.name, "Sonstiges"),
                  color |-> OrDefault(t.categories.color, defaultColor),
                  amount |-> t.amount]
    IN  IF known
        THEN [i \in 1..Len(byCat) |->
                 IF byCat[i].id = id
                 THEN [fresh EXCEPT !.amount = byCat[i].amount + t.amount]
                 ELSE byCat[i]]
        ELSE Append(byCat, fresh)

\* one iteration of the loop of lines 284-289: if (!byCat[catId]) creates the
\* entry from this transaction, then the amount is added
AddToCat(byCat, t, defaultColor) ==
    LET id == CatId(t)
        known == \E i \in 1..Len(byCat) : byCat[i].id = id
        withCat ==
            IF known THEN byCat
            ELSE Append(byCat, [id |-> id,
                                name |-> OrDefault(t.categories.name, "Sonstiges"),
                                color |-> OrDefault(t.categories.color, defaultColor),
                                amount |-> 0])
    IN  [i \in 1..Len(withCat) |->
            IF withCat[i].id = id
            THEN [withCat[i] EXCEPT !.amount = @ + t.amount]
            ELSE withCat[i]]

RECURSIVE ByCat(_, _, _)
ByCat(txs, byCat, defaultColor) ==
    IF txs = <<>> THEN byCat
    ELSE ByCat(Tail(txs), AddToCat(byCat, Head(txs), defaultColor), defaultColor)

\* the number a property key denotes when it is a canonical array index
\* ("0", "1", ...), and -1 for every other key
IndexValue(id) == CASE id = "7" -> 7 [] OTHER -> 0 - 1

RECURSIVE InsertByIndex(_, _)
InsertByIndex(s, e) ==
    IF s = <<>> THEN <<e>>
    ELSE IF IndexValue(Head(s).id) <= IndexValue(e.id)
         THEN <<Head(s)>> \o InsertByIndex(Tail(s), e)
         ELSE <<e>> \o s

RECURSIVE IndexEntries(_)
IndexEntries(byCat) ==
    IF byCat = <<>> THEN <<>>
    ELSE LET e == byCat[Len(byCat)]
             rest == IndexEntries(SubSeq(byCat, 1, Len(byCat) - 1))
         IN  IF IndexValue(e.id) >= 0 THEN InsertByIndex(rest, e) ELSE rest

RECURSIVE StringEntries(_)
StringEntries(byCat) ==
    IF byCat = <<>> THEN <<>>
    ELSE (IF IndexValue(Head(byCat).id) < 0 THEN <<Head(byCat)>> ELSE <<>>)
         \o StringEntries(Tail(byCat))

\* Object.entries(byCat), line 290: the array-index keys in ascending numeric
\* order, then the other string keys in creation order
ObjectEntries(byCat) == IndexEntries(byCat) \o StringEntries(byCat)

RECURSIVE KeepPositive(_)
KeepPositive(entries) ==
    IF entries = <<>> THEN <<>>
    ELSE (IF Head(entries).amount > 0 THEN <<Head(entries)>> ELSE <<>>)
         \o KeepPositive(Tail(entries))

\* an insertion that puts the new element before the elements of equal amount
RECURSIVE InsertByAmountUnstable(_, _)
InsertByAmountUnstable(s, e) ==
    IF s = <<>> THEN <<e>>
    ELSE IF Head(s).amount > e.amount
         THEN <<Head(s)>> \o InsertByAmountUnstable(Tail(s), e)
         ELSE <<e>> \o s

\* .sort((a, b) => b.amount - a.amount), stable
RECURSIVE InsertByAmount(_, _)
InsertByAmount(s, e) ==
    IF s = <<>> THEN <<e>>
    ELSE IF Head(s).amount >= e.amount
         THEN <<Head(s)>> \o InsertByAmount(Tail(s), e)
         ELSE <<e>> \o s

RECURSIVE SortByAmount(_)
SortByAmount(s) ==
    IF s = <<>> THEN <<>>
    ELSE InsertByAmount(SortByAmount(SubSeq(s, 1, Len(s) - 1)), s[Len(s)])

\* lines 282-294 and 296-308
Segments(monthTxs, type, defaultColor) ==
    SortByAmount(KeepPositive(ObjectEntries(
        ByCat(FilterType(monthTxs, type), <<>>, defaultColor))))

\* ---- inputs of the segments specification ----
MaxSegTx == 2
SegTargets == {[y |-> 2023, m |-> 1], [y |-> 2023, m |-> 2]}
SegDates == {Date(2023, 1, 15), Date(2023, 2, 1)}
SegAmounts == {0, 40}
SegCategories ==
    {[id |-> NULL, cat |-> NoCategory],
     [id |-> "catA", cat |-> [name |-> "Essen", color |-> "red"]],
     [id |-> "catA", cat |-> [name |-> "essen", color |-> "blue"]],
     [id |-> "catB", cat |-> [name |-> "Miete", color |-> "green"]],
     [id |-> "7", cat |-> [name |-> "Auto", color |-> "grey"]]}

SegTx ==
    {[transaction_date |-> d, type |-> ty, amount |-> a,
      category_id |-> c.id, categories |-> c.cat, description |-> NULL] :
        d \in SegDates, ty \in Types, a \in SegAmounts, c \in SegCategories}

SegInit ==
    /\ tz \in TimeZones
    /\ now = 0
    /\ \E s \in SegTargets : year = s.y /\ month = s.m
    /\ transactions = <<>>
    /\ points = <<>> /\ timelineData = <<>>
    /\ expenseSegments = <<>> /\ incomeSegments = <<>>
    /\ IdleInsights
    /\ IdleSelector
    /\ IdleHooks

SegRender ==
    LET monthTxs == monthTransactions(transactions', year', month', tz)
    IN  /\ expenseSegments' = Segments(monthTxs, "expense", "#9CA3AF")
        /\ incomeSegments' = Segments(monthTxs, "income", "#7B61FF")

\* a new snapshot with one more transaction reaches the screen
SegAddTransaction ==
    /\ Len(transactions) < MaxSegTx
    /\ \E t \in SegTx, i \in 0..Len(transactions) :
           /\ FetchOrdered(InsertAt(transactions, i, t))
           /\ transactions' = InsertAt(transactions, i, t)
    /\ UNCHANGED <<year, month>>
    /\ SegRender
    /\ UNCHANGED <<tz, now, tlVars, insVars, selVars, hookVars>>

\* another month is selected
SegSelectMonth ==
    /\ \E s \in SegTargets : (s.y # year \/ s.m # month) /\ year' = s.y /\ month' = s.m
    /\ UNCHANGED transactions
    /\ SegRender
    /\ UNCHANGED <<tz, now, tlVars, insVars, selVars, hookVars>>

SegNext == SegAddTransaction \/ SegSelectMonth

SpecSegments == SegInit /\ [][SegNext]_vars

\* ---- computeTimeline on lists in any order ----
MaxOrdTx == 3
OrdDates == {Date(2023, 1, 1), Date(2023, 1, 15), Date(2023, 2, 1)}
OrdAmounts == {40}
OrdToday == Date(2023, 11, 31)

OrdTx == {t \in TLTx : t.transaction_date \in OrdDates /\ t.amount \in OrdAmounts}

OrdInit ==
    /\ tz \in TimeZones
    /\ now = NoonOf(OrdToday, tz)
    /\ \E s \in Targets : year = s.y /\ month = s.m
    /\ transactions = <<>>
    /\ points = <<>>
    /\ timelineData = <<>>
    /\ expenseSegments = <<>> /\ incomeSegments = <<>>
    /\ IdleInsights
    /\ IdleSelector
    /\ IdleHooks

\* computeTimeline is called with one more transaction, at any position
OrdAddTransaction ==
    /\ Len(transactions) < MaxOrdTx
    /\ \E t \in OrdTx, i \in 0..Len(transactions) :
           transactions' = InsertAt(transactions, i, t)
    /\ UNCHANGED <<year, month>>
    /\ TLRender
    /\ UNCHANGED <<tz, now, segVars, insVars, selVars, hookVars>>

OrdNext == OrdAddTransaction \/ TLSelectMonth

SpecOrder == OrdInit /\ [][OrdNext]_vars

\* ---- the month selector, the selected month and the selected aggregate ----
MaxBack == 4
MaxStats == 3

\* const d = new Date(); d.setMonth(d.getMonth() + k); then d.getFullYear() and
\* d.getMonth(): setMonth keeps the local day of the month and the date is
\* normalised, a day past the end of the month running into the next one
SelectedDate(t, off, k) ==
    LET d == LocalDate(t, off)
        n == DateOfDayNum(DayNum(d.y, d.m + k, d.d))
    IN  [year |-> n.y, month |-> n.m]

Min(a, b) == IF a <= b THEN a ELSE b
Max(a, b) == IF a >= b THEN a ELSE b

\* an index that is capped at the last element only
SelectedIndexNoFloor(n, k) == Min((n - 1) + k, n - 1)

\* Math.max(0, Math.min((stats.length - 1) + monthOffset, stats.length - 1))
SelectedIndex(n, k) == Max(0, Min((n - 1) + k, n - 1))

\* s[i] of the JavaScript array, i zero-based: undefined outside the array
StatAt(s, i) == IF i >= 0 /\ i < Len(s) THEN s[i + 1] ELSE NoStat

\* a delta that counts a missing or zero previous value as a rise from nothing
DeltaPctFromNothing(value, prev) ==
    IF prev > 0 THEN Rat((value - prev) * 100, prev)
    ELSE IF value > 0 THEN Rat(100, 1) ELSE Rat(0, 1)

\* lines 259-260: previous?.x > 0 ? ((x - previous.x) / previous.x) * 100 : 0,
\* prev being 0 for an absent previous aggregate
DeltaPct(value, prev) ==
    IF prev > 0 THEN Rat((value - prev) * 100, prev) ELSE Rat(0, 1)

\* a next button that is always live
NextPressedAlways(offset) == offset + 1

\* onPress of the next button: offset < 0 && onChange(offset + 1)
NextPressed(offset) == IF offset < 0 THEN offset + 1 ELSE offset

\* onPress of the previous button: onChange(offset - 1)
PreviousPressed(offset) == offset - 1

\* onPress of the label: offset !== 0 && onChange(0)
LabelPressed(offset) == IF offset # 0 THEN 0 ELSE offset

\* ---- inputs of the month selector specification ----
RefDays == {Date(2023, 0, 31), Date(2023, 2, 31), Date(2023, 4, 15), Date(2023, 11, 31)}
StatValues == {[income |-> 0, expenses |-> 0], [income |-> 100, expenses |-> 50],
               [income |-> 110, expenses |-> 60], [income |-> 100, expenses |-> 0]}

\* the month j months before the month `end`
MonthBack(end, j) ==
    LET q == end.y * 12 + end.m - j
    IN  [y |-> q \div 12, m |-> q % 12]

\* the answers of get_monthly_stats: one record per month, oldest first, the
\* last one for the month of `t`
StatSamples(t) ==
    LET end == LocalDate(t, 0)
    IN  UNION {{[i \in 1..n |-> [month |-> MonthBack(end, n - i),
                                 income |-> f[i].income,
                                 expenses |-> f[i].expenses]] :
                    f \in [1..n -> StatValues]} : n \in 1..MaxStats}

\* lines 247-267 and 329-331: the index, 'current' and 'previous', the KPI
\* values and deltas, the selected month and the insights (no transactions are
\* loaded: topExpense and biggestTx stay null)
SelRender ==
    /\ LET sel == SelectedDate(now', tz', monthOffset')
       IN  year' = sel.year /\ month' = sel.month
    /\ selectedIndex' = SelectedIndex(Len(stats'), monthOffset')
    /\ previous' = StatAt(stats', selectedIndex' - 1)
    /\ income' = StatAt(stats', selectedIndex').income
    /\ expenses' = StatAt(stats', selectedIndex').expenses
    /\ incomeDelta' = DeltaPct(income', previous'.income)
    /\ expenseDelta' = DeltaPct(expenses', previous'.expenses)
    /\ insights' = buildInsights(income', expenses', incomeDelta', expenseDelta',
                                 topExpCat', 0, biggestTx')

SelInit ==
    /\ tz \in TimeZones
    /\ \E t \in RefDays : now = NoonOf(t, tz)
    /\ monthOffset = 0
    /\ stats = <<>>
    /\ selectedIndex = SelectedIndex(0, 0)
    /\ previous = NoStat
    /\ LET sel == SelectedDate(now, tz, 0)
       IN  year = sel.year /\ month = sel.month
    /\ transactions = <<>>
    /\ points = <<>> /\ timelineData = <<>>
    /\ expenseSegments = <<>> /\ incomeSegments = <<>>
    /\ IdleInsights
    /\ IdleHooks

SelFixed == UNCHANGED <<tz, now, transactions, tlVars, segVars, topExpCat, biggestTx,
                        hookVars>>

PressPrevious ==
    /\ monthOffset > 0 - MaxBack
    /\ monthOffset' = PreviousPressed(monthOffset)
    /\ UNCHANGED stats
    /\ SelFixed /\ SelRender

PressNext ==
    /\ monthOffset' = NextPressed(monthOffset)
    /\ UNCHANGED stats
    /\ SelFixed /\ SelRender

PressLabel ==
    /\ monthOffset' = LabelPressed(monthOffset)
    /\ UNCHANGED stats
    /\ SelFixed /\ SelRender

\* setStats(data || []) of the one fetch of useMonthlyStats
StatsLoaded ==
    /\ stats = <<>>
    /\ stats' \in StatSamples(now)
    /\ UNCHANGED monthOffset
    /\ SelFixed /\ SelRender

SelNext == PressPrevious \/ PressNext \/ PressLabel \/ StatsLoaded

SpecSelector == SelInit /\ [][SelNext]_vars

\* ---- useRecurring: processing the due recurring transactions ----
MaxItems == 2
MaxInserted == 3

\* advanceDueDate: new Date(current) is midnight UTC; setMonth and setDate work
\* on the local date and keep the local time of day; toISOString is the UTC date
advanceDueDate(current, frequency, off) ==
    LET t == ParseDate(current)
        local == LocalDate(t, off)
        hour == (t + off) % 24
        day == IF frequency = "monthly"
               THEN DayNum(local.y, local.m + 1, local.d)
               ELSE DayNum(local.y, local.m, local.d + 7)
    IN  ToISODate(day * 24 + hour - off)

\* 'YYYY-MM-DD' strings compare as the days they name
DateLE(a, b) == DayNum(a.y, a.m, a.d) <= DayNum(b.y, b.m, b.d)

\* the rows the select of lines 239-244 returns, each with its id
RECURSIVE DueRows(_, _, _, _)
DueRows(table, i, user, today) ==
    IF i > Len(table) THEN <<>>
    ELSE (IF /\ table[i].user_id = user /\ table[i].is_active
             /\ DateLE(table[i].next_occurrence, today)
          THEN <<[id |-> i, frequency |-> table[i].frequency,
                  next_occurrence |-> table[i].next_occurrence]>>
          ELSE <<>>) \o DueRows(table, i + 1, user, today)

\* the rows of lines 248-255, with the item and the occurrence they stand for
Inserts(due, user, today) ==
    [k \in 1..Len(due) |->
        [user_id |-> user, transaction_date |-> today,
         item |-> due[k].id, occurrence |-> due[k].next_occurrence]]

\* ---- inputs of the recurring specification ----
RecUsers == {"u1", "u2"}
RecDates == {Date(2023, 0, 31), Date(2023, 2, 1)}
RecToday == Date(2023, 2, 1)
RecHours == {12, 22}
RecRows == [user_id : RecUsers, frequency : {"monthly", "weekly"},
            next_occurrence : RecDates, is_active : BOOLEAN]
RecTables == UNION {[1..n -> RecRows] : n \in 1..MaxItems}

RecFixed == UNCHANGED <<tz, now, year, month, transactions, tlVars, segVars, insVars,
                        selVars, error, fetches, serverRows, budgets>>

RecInit ==
    /\ tz \in TimeZones
    /\ \E h \in RecHours : now = LocalMidnight(RecToday.y, RecToday.m, RecToday.d, tz) + h
    /\ year = 2023 /\ month = 0
    /\ transactions = <<>> /\ points = <<>> /\ timelineData = <<>>
    /\ expenseSegments = <<>> /\ incomeSegments = <<>>
    /\ IdleInsights /\ IdleSelector
    /\ userId = "u1" /\ loading = TRUE /\ error = NULL
    /\ fetches = <<>> /\ serverRows = <<>> /\ budgets = <<>>
    /\ processed = FALSE /\ run = NoRun
    /\ recurringTable \in RecTables
    /\ insertedTx = <<>>

\* the app is loaded again: a new instance of the hook, whatever the previous
\* one was doing
RecMount ==
    /\ Len(insertedTx) < MaxInserted
    /\ loading' = TRUE /\ processed' = FALSE /\ run' = NoRun
    /\ UNCHANGED <<userId, recurringTable, insertedTx>>
    /\ RecFixed

\* fetchRecurring completes
RecFetched ==
    /\ loading = TRUE
    /\ loading' = FALSE
    /\ UNCHANGED <<userId, processed, run, recurringTable, insertedTx>>
    /\ RecFixed

\* the effect of lines 284-288 calls processDueTransactions, up to the first await
RecStart ==
    /\ ~loading /\ ~processed /\ userId # NULL /\ run.pc = "idle"
    /\ processed' = TRUE
    /\ run' = [NoRun EXCEPT !.pc = "select", !.today = ToISODate(now)]
    /\ UNCHANGED <<userId, loading, recurringTable, insertedTx>>
    /\ RecFixed

\* the select answers, lines 239-246
RecSelect ==
    /\ run.pc = "select"
    /\ \E ok \in BOOLEAN :
          LET due == DueRows(recurringTable, 1, userId, run.today)
          IN  run' = IF ~ok THEN [run EXCEPT !.pc = "done", !.ok = FALSE]
                     ELSE IF due = <<>> THEN [run EXCEPT !.pc = "done"]
                     ELSE [run EXCEPT !.pc = "insert", !.due = due]
    /\ UNCHANGED <<userId, loading, processed, recurringTable, insertedTx>>
    /\ RecFixed

\* the batch insert answers, lines 258-262
RecInsert ==
    /\ run.pc = "insert"
    /\ \E ok \in BOOLEAN :
          IF ok
          THEN /\ insertedTx' = insertedTx \o Inserts(run.due, userId, run.today)
               /\ run' = [run EXCEPT !.pc = "update", !.i = 1]
          ELSE /\ insertedTx' = insertedTx
               /\ run' = [run EXCEPT !.pc = "done", !.ok = FALSE]
    /\ UNCHANGED <<userId, loading, processed, recurringTable>>
    /\ RecFixed

\* one update of the loop of lines 265-271 answers; its error is not looked at
RecUpdate ==
    /\ run.pc = "update"
    /\ \E ok \in BOOLEAN :
          LET r == run.due[run.i]
              last == run.i = Len(run.due)
          IN  /\ recurringTable' =
                     IF ok
                     THEN [recurringTable EXCEPT ![r.id].next_occurrence =
                              advanceDueDate(r.next_occurrence, r.frequency, tz)]
                     ELSE recurringTable
              /\ run' = [run EXCEPT !.pc = IF last THEN "done" ELSE "update",
                                    !.i = @ + 1,
                                    !.ok = @ /\ ok]
    /\ UNCHANGED <<userId, loading, processed, insertedTx>>
    /\ RecFixed

RecNext == RecMount \/ RecFetched \/ RecStart \/ RecSelect \/ RecInsert \/ RecUpdate

SpecRecurring == RecInit /\ [][RecNext]_vars

\* ---- useBudgets: the budget rows ----
MaxBudgetTx == 2

\* spendMap[category] after the loop of lines 78-81
RECURSIVE SpendOf(_, _)
SpendOf(txs, category) ==
    IF txs = <<>> THEN 0
    ELSE (IF Head(txs).category_id = category THEN Head(txs).amount ELSE 0)
         + SpendOf(Tail(txs), category)

\* a progress that is not capped at 1
ProgressUncapped(spent, limit) == IF limit > 0 THEN Rat(spent, limit) ELSE Rat(0, 1)

\* limit > 0 ? Math.min(spent / limit, 1) : 0, as an exact fraction
Progress(spent, limit) ==
    IF limit > 0
    THEN (IF spent <= limit THEN Rat(spent, limit) ELSE Rat(1, 1))
    ELSE Rat(0, 1)

\* the object of lines 87-98
BudgetWithSpend(row, txs) ==
    LET spent == SpendOf(txs, row.category_id)
        limit == row.monthly_limit
    IN  [categoryId |-> row.category_id,
         limit |-> limit,
         spent |-> spent,
         remaining |-> Max(0, limit - spent),
         progress |-> Progress(spent, limit),
         isOverspent |-> spent > limit]

\* ---- inputs of the budgets specification ----
BudgetRows == {<<[category_id |-> "catA", monthly_limit |-> a]>> : a \in {0, 50, 100}}
              \cup {<<[category_id |-> "catA", monthly_limit |-> a],
                      [category_id |-> "catB", monthly_limit |-> b]>> :
                        a \in {0, 50, 100}, b \in {0, 50, 100}}
BudgetTxs == UNION {[1..n -> [category_id : {"catA", "catB"}, amount : {40, 60}]] :
                        n \in 0..MaxBudgetTx}

BudFixed == UNCHANGED <<tz, now, year, month, transactions, tlVars, segVars, insVars,
                        selVars, userId, fetches, serverRows,
                        processed, run, recurringTable, insertedTx>>

BudInit ==
    /\ tz = 0 /\ now = 0 /\ year = 2023 /\ month = 0
    /\ transactions = <<>> /\ points = <<>> /\ timelineData = <<>>
    /\ expenseSegments = <<>> /\ incomeSegments = <<>>
    /\ IdleInsights /\ IdleSelector
    /\ userId = "u1" /\ loading = TRUE /\ error = NULL
    /\ fetches = <<>> /\ serverRows = <<>> /\ budgets = <<>>
    /\ processed = FALSE /\ run = NoRun
    /\ recurringTable = <<>> /\ insertedTx = <<>>

\* fetchBudgets runs to setBudgets(result) and the finally block
BudFetched ==
    /\ \E rows \in BudgetRows, txs \in BudgetTxs :
           budgets' = [k \in 1..Len(rows) |-> BudgetWithSpend(rows[k], txs)]
    /\ loading' = FALSE
    /\ UNCHANGED error
    /\ BudFixed

\* one of the two queries of fetchBudgets fails: catch and finally
BudFetchFailed ==
    /\ error' = "error"
    /\ loading' = FALSE
    /\ UNCHANGED budgets
    /\ BudFixed

BudNext == BudFetched \/ BudFetchFailed

SpecBudgets == BudInit /\ [][BudNext]_vars

\* ---- useTransactions: the snapshot, its fetches and the realtime channel ----
MaxFetches == 3
MaxRows == 2

TxUsers == {"u1", "u2"}

\* .eq('user_id', userId): the rows of the table that belong to the user
RowsOf(table, user) ==
    LET Mine(r) == r.user_id = user
    IN  SelectSeq(table, Mine)

\* a call of fetchTransactions of the effect that ran for `user`: the request is
\* on its way ("sent"), answered by the backend ("ok" with the rows it read, or
\* "failed"), then handled by the hook ("done"; seq counts the handled calls)
NewFetch(user) == [user |-> user, state |-> "sent", data |-> <<>>, ok |-> TRUE, seq |-> 0]

Handled(fs) == {i \in 1..Len(fs) : fs[i].state = "done"}

TxFixed == UNCHANGED <<tz, now, year, month, tlVars, segVars, insVars, selVars,
                       budgets, processed, run, recurringTable, insertedTx>>

\* the hook is mounted for a signed-in user: the three useState values and the
\* first run of the effect, which calls fetchTransactions
TxInit ==
    /\ tz = 0 /\ now = 0 /\ year = 2023 /\ month = 0
    /\ points = <<>> /\ timelineData = <<>>
    /\ expenseSegments = <<>> /\ incomeSegments = <<>>
    /\ IdleInsights /\ IdleSelector
    /\ userId = "u1"
    /\ transactions = <<>> /\ loading = TRUE /\ error = NULL
    /\ fetches = <<NewFetch("u1")>>
    /\ serverRows \in {<<>>, <<[user_id |-> "u1", id |-> 1]>>}
    /\ budgets = <<>> /\ processed = FALSE /\ run = NoRun
    /\ recurringTable = <<>> /\ insertedTx = <<>>

\* userId changes: the cleanup removes the channel and the effect runs again,
\* setLoading(false) without a user, fetchTransactions and a new channel with one
TxSetUser ==
    /\ \E u \in (TxUsers \cup {NULL}) \ {userId} :
           /\ userId' = u
           /\ IF u = NULL
              THEN loading' = FALSE /\ UNCHANGED fetches
              ELSE /\ Len(fetches) < MaxFetches
                   /\ fetches' = Append(fetches, NewFetch(u))
                   /\ UNCHANGED loading
    /\ UNCHANGED <<transactions, error, serverRows>>
    /\ TxFixed

\* the backend answers a request: with the user's rows as they are now, or with
\* an error
TxAnswer ==
    /\ \E i \in 1..Len(fetches), ok \in BOOLEAN :
           /\ fetches[i].state = "sent"
           /\ fetches' = [fetches EXCEPT
                  ![i].state = IF ok THEN "ok" ELSE "failed",
                  ![i].data = IF ok THEN RowsOf(serverRows, fetches[i].user) ELSE <<>>]
    /\ UNCHANGED <<userId, transactions, loading, error, serverRows>>
    /\ TxFixed

\* the await of fetchTransactions resumes with data: setTransactions(data || [])
\* and the finally block
TxFetched ==
    /\ \E i \in 1..Len(fetches) :
           /\ fetches[i].state = "ok"
           /\ transactions' = fetches[i].data
           /\ fetches' = [fetches EXCEPT ![i].state = "done", ![i].ok = TRUE,
                              ![i].seq = Cardinality(Handled(fetches)) + 1]
    /\ loading' = FALSE
    /\ UNCHANGED <<userId, error, serverRows>>
    /\ TxFixed

\* the await resumes with an error: throw, catch with setError, finally
TxFetchFailed ==
    /\ \E i \in 1..Len(fetches) :
           /\ fetches[i].state = "failed"
           /\ fetches' = [fetches EXCEPT ![i].state = "done", ![i].ok = FALSE,
                              ![i].seq = Cardinality(Handled(fetches)) + 1]
    /\ error' = "error"
    /\ loading' = FALSE
    /\ UNCHANGED <<userId, transactions, serverRows>>
    /\ TxFixed

\* a row of some user is written to the table; the channel of the running
\* effect, filtered on its user, calls fetchTransactions for that user's rows
TxRealtime ==
    /\ Len(serverRows) < MaxRows
    /\ \E u \in TxUsers :
           /\ serverRows' = Append(serverRows, [user_id |-> u, id |-> Len(serverRows) + 1])
           /\ IF u = userId
              THEN /\ Len(fetches) < MaxFetches
                   /\ fetches' = Append(fetches, NewFetch(u))
              ELSE UNCHANGED fetches
    /\ UNCHANGED <<userId, transactions, loading, error>>
    /\ TxFixed

TxNext == TxSetUser \/ TxAnswer \/ TxFetched \/ TxFetchFailed \/ TxRealtime

SpecTransactions == TxInit /\ [][TxNext]_vars

\* ---- claims about computeTimeline ----
RECURSIVE SumSeq(_)
SumSeq(s) == IF s = <<>> THEN 0 ELSE Delta(Head(s)) + SumSeq(Tail(s))

\* the transactions whose date string names a day 1..upTo of the month (y, m)
RECURSIVE OfMonthUpTo(_, _, _, _)
OfMonthUpTo(txs, y, m, upTo) ==
    IF txs = <<>> THEN <<>>
    ELSE (IF Head(txs).transaction_date.y = y /\ Head(txs).transaction_date.m = m
             /\ Head(txs).transaction_date.d <= upTo
          THEN <<Head(txs)>> ELSE <<>>) \o OfMonthUpTo(Tail(txs), y, m, upTo)

BalanceThrough(day) == SumSeq(OfMonthUpTo(transactions, year, month, day))
HasTxOn(day) == \E i \in 1..Len(transactions) :
                    transactions[i].transaction_date = Date(year, month, day)
HasTxInMonth == OfMonthUpTo(transactions, year, month, 31) # <<>>
Today == LocalDate(now, tz)
LastDay == DaysInMonth(year, month)
\* the number of days of the selected month that are not after today
DaysSoFar ==
    IF DayNum(Today.y, Today.m, Today.d) < DayNum(year, month, 1) THEN 0
    ELSE IF DayNum(Today.y, Today.m, Today.d) > DayNum(year, month, LastDay) THEN LastDay
    ELSE Today.d
\* the day of the selected month a point's date field names (0 or less: a day
\* of an earlier month)
DateDay(p) == DayNum(p.date.y, p.date.m, p.date.d) - DayNum(year, month, 1) + 1

\* C1: every point of the daily series has balance equal to the signed sum of
\* the transactions of the target month dated on or before that point's day
\* (the day of its label, or else the day of its date field).
C1_RunningBalance ==
    \/ \A i \in 1..Len(points) : points[i].balance = BalanceThrough(points[i].label.day)
    \/ \A i \in 1..Len(points) : points[i].balance = BalanceThrough(DateDay(points[i]))

\* C2: when the target month has a transaction, the daily series has exactly
\* one point per calendar day from day 1 to min(today, last day of the month),
\* in strictly ascending date order, and no point is dated after today.
C2_OnePointPerDay ==
    HasTxInMonth =>
        /\ Len(points) = DaysSoFar
        /\ \A i \in 1..Len(points) : points[i].label.day = i
        /\ \A i \in 1..(Len(points) - 1) : DateDay(points[i]) < DateDay(points[i + 1])
        /\ \A i \in 1..Len(points) :
               DayNum(points[i].date.y, points[i].date.m, points[i].date.d)
               <= DayNum(Today.y, Today.m, Today.d)

\* the example of C3: +100 on day 1 and -40 on day 15 of a 28-day month, today day 20
C3Example ==
    /\ year = 2023 /\ month = 1 /\ Today = Date(2023, 1, 20)
    /\ Len(transactions) = 2
    /\ \E i, j \in 1..2 :
          /\ transactions[i].transaction_date = Date(2023, 1, 1)
          /\ transactions[i].type = "income" /\ transactions[i].amount = 100
          /\ transactions[j].transaction_date = Date(2023, 1, 15)
          /\ transactions[j].type = "expense" /\ transactions[j].amount = 40

CarriesForward(dayOf(_)) ==
    \A i \in 1..Len(points) :
        /\ (~HasTxOn(dayOf(points[i])) /\ i > 1) => points[i].balance = points[i - 1].balance
        /\ (\A d \in 1..31 : HasTxOn(d) => dayOf(points[i]) < d) => points[i].balance = 0

LabelDay(p) == p.label.day

\* C3: a day without a transaction carries the balance of the nearest earlier
\* day that has one, days before the first transaction have balance 0, and the
\* example gives 100 for days 1-14, 60 for days 15-20 and nothing after day 20.
C3_CarryForward ==
    /\ CarriesForward(LabelDay) \/ CarriesForward(DateDay)
    /\ C3Example =>
          /\ Len(points) = 20
          /\ \A i \in 1..20 :
                 /\ points[i].label.day = i \/ DateDay(points[i]) = i
                 /\ points[i].balance = IF i <= 14 THEN 100 ELSE 60

\* the 0-based indices the downsampling keeps, for a series of n points
KeptIndices(n) ==
    LET step == CHOOSE s \in 1..n : s * MaxPoints >= n /\ (s - 1) * MaxPoints < n
    IN  {i \in 0..(n - 1) : i % step = 0 \/ i = n - 1}

\* C4: a daily series of more than 30 points is cut to the points at indices
\* i with i mod ceil(length/30) = 0 plus the final point, a shorter one is
\* returned unchanged; the final daily point is always in the output and the
\* output never has more than 31 points.
C4_Downsample ==
    LET n == Len(points)
        kept == KeptIndices(n)
    IN  /\ n > MaxPoints =>
              /\ Len(timelineData) = Cardinality(kept)
              /\ \A i \in kept :
                     timelineData[Cardinality({k \in kept : k < i}) + 1] = points[i + 1]
        /\ n <= MaxPoints => timelineData = points
        /\ n > 0 => /\ timelineData # <<>>
                    /\ timelineData[Len(timelineData)] = points[n]
        /\ Len(timelineData) <= MaxPoints + 1

\* a month of 31 daily points has been downsampled
C4_Witness == Len(points) > MaxPoints /\ Len(timelineData) < Len(points)

\* ---- claims about buildInsights ----
Kinds == {insights[i].kind : i \in 1..Len(insights)}
BandKinds == {"exceptional", "good", "encourage", "overspend"}
Rank(kind) ==
    IF kind \in BandKinds THEN 1
    ELSE IF kind \in {"spike", "drop"} THEN 2
    ELSE IF kind = "biggest" THEN 3 ELSE 4
Net == income - expenses
SpikeQualifies == expenseDelta.num > 15 * expenseDelta.den
DropQualifies == expenseDelta.num < (0 - 10) * expenseDelta.den
GrowthQualifies == incomeDelta.num > 5 * incomeDelta.den
\* a savings-band entry qualifies when income > 0 and the rate is not 0; for
\* the other inputs (C7, C8) its presence in the result is taken as given
BandQualifies ==
    IF income > 0 /\ Net # 0 THEN TRUE ELSE Kinds \cap BandKinds # {}
QualifyingRanks ==
    (IF BandQualifies THEN <<1>> ELSE <<>>)
    \o (IF SpikeQualifies \/ DropQualifies THEN <<2>> ELSE <<>>)
    \o (IF biggestTx # NoTx THEN <<3>> ELSE <<>>)
    \o (IF GrowthQualifies THEN <<4>> ELSE <<>>)

\* C5: buildInsights returns at most 3 insights, the first three of the
\* qualifying entries in the order savings band, expense change, biggest
\* transaction, income growth; when the first three all qualify, income growth
\* is absent even though incomeDelta > 5.
C5_CapAndPriority ==
    /\ Len(insights) <= 3
    /\ Len(insights) = (IF Len(QualifyingRanks) < 3 THEN Len(QualifyingRanks) ELSE 3)
    /\ \A i \in 1..Len(insights) : Rank(insights[i].kind) = QualifyingRanks[i]
    /\ (BandQualifies /\ SpikeQualifies /\ biggestTx # NoTx) =>
           /\ Len(insights) = 3
           /\ insights[1].kind \in BandKinds
           /\ insights[2].kind = "spike"
           /\ insights[3].kind = "biggest"
           /\ "growth" \notin Kinds

\* all four entries qualify and income growth is the one cut off
C5_Witness ==
    /\ income > 0 /\ Net * 100 >= 20 * income /\ SpikeQualifies /\ biggestTx # NoTx
    /\ GrowthQualifies
    /\ Len(insights) = 3 /\ "growth" \notin Kinds

\* C6: for income > 0, exceptional is emitted iff rate >= 20%, good iff
\* 15% <= rate < 20%, encourage-more iff 0% < rate < 15%; for every input at
\* most one insight of the savings band is emitted.
C6_SavingsBand ==
    /\ income > 0 =>
           /\ "exceptional" \in Kinds <=> Net * 100 >= 20 * income
           /\ "good" \in Kinds <=> (Net * 100 >= 15 * income /\ Net * 100 < 20 * income)
           /\ "encourage" \in Kinds <=> (Net * 100 > 0 /\ Net * 100 < 15 * income)
    /\ Cardinality({i \in 1..Len(insights) : insights[i].kind \in BandKinds}) <= 1

\* a rate of exactly 15% gives the good insight
C6_Witness ==
    income > 0 /\ Net * 100 = 15 * income /\ insights # <<>> /\ insights[1].kind = "good"

\* C7 as stated: for income > 0 and rate <= 0% (expenses equal to income
\* included) the overspend warning is the savings-band entry.
C7_Original ==
    (income > 0 /\ expenses >= income) =>
        (insights # <<>> /\ insights[1].kind = "overspend")

\* C7 amended: for income > 0 the overspend warning is the savings-band entry
\* when expenses > income, and no savings-band entry is emitted when expenses
\* equal income.
C7_OverspendStrict ==
    /\ (income > 0 /\ expenses > income) =>
           (insights # <<>> /\ insights[1].kind = "overspend")
    /\ (income > 0 /\ expenses = income) => Kinds \cap BandKinds = {}

\* expenses above a positive income: the warning is emitted
C7_Witness ==
    income > 0 /\ expenses > income /\ insights # <<>> /\ insights[1].kind = "overspend"

\* C8 as stated: with income = 0 the overspend warning is emitted iff
\* expenses > 0, and no savings-band insight is emitted when expenses = 0 too.
C8_Original ==
    income = 0 =>
        /\ "overspend" \in Kinds <=> expenses > 0
        /\ expenses = 0 => Kinds \cap BandKinds = {}

\* C9: expense-spike is emitted iff expenseDelta > 15, expense-drop iff
\* expenseDelta < -10, never both, whatever the other arguments are.
C9_ExpenseChange ==
    /\ "spike" \in Kinds <=> SpikeQualifies
    /\ "drop" \in Kinds <=> DropQualifies
    /\ ~("spike" \in Kinds /\ "drop" \in Kinds)

\* an expense-drop next to a savings-band insight, with the cap reached
C9_Witness ==
    /\ DropQualifies /\ GrowthQualifies /\ biggestTx # NoTx
    /\ Len(insights) = 3
    /\ insights[1].kind \in BandKinds /\ insights[2].kind = "drop"

\* ---- claims about the segments ----
\* the sum of the amounts of the transactions of the selected month (by their
\* date string), of one type and one category id
RECURSIVE MonthCatSum(_, _, _)
MonthCatSum(txs, type, id) ==
    IF txs = <<>> THEN 0
    ELSE (IF Head(txs).transaction_date.y = year /\ Head(txs).transaction_date.m = month
             /\ Head(txs).type = type /\ CatId(Head(txs)) = id
          THEN Head(txs).amount ELSE 0) + MonthCatSum(Tail(txs), type, id)

HasMonthTxOfType(type) ==
    \E i \in 1..Len(transactions) :
        /\ transactions[i].transaction_date.y = year
        /\ transactions[i].transaction_date.m = month
        /\ transactions[i].type = type

SegmentsFromMonth(segs, type) ==
    /\ \A i \in 1..Len(segs) :
           /\ segs[i].amount > 0
           /\ segs[i].amount = MonthCatSum(transactions, type, segs[i].id)
    /\ ~HasMonthTxOfType(type) => segs = <<>>

\* C10: every expense (income) segment has amount > 0 and is computed only
\* from the expense (income) transactions of the selected month; a month with
\* no transaction of the requested type has an empty segment list.
C10_Original ==
    /\ SegmentsFromMonth(expenseSegments, "expense")
    /\ SegmentsFromMonth(incomeSegments, "income")

\* the transactions the loop of one flow runs over, in their order
Group(type) == FilterType(monthTransactions(transactions, year, month, tz), type)

\* the position in the group of the first transaction of the category id
FirstSeen(group, id) ==
    CHOOSE i \in 1..Len(group) :
        /\ CatId(group[i]) = id
        /\ \A j \in 1..(i - 1) : CatId(group[j]) # id

NonIncreasing(segs) ==
    \A i, j \in 1..Len(segs) : i < j => segs[i].amount >= segs[j].amount

\* segments of equal amount stand in the order of first encounter
TiesInEncounterOrder(segs, group) ==
    \A i, j \in 1..Len(segs) :
        (i < j /\ segs[i].amount = segs[j].amount)
            => FirstSeen(group, segs[i].id) < FirstSeen(group, segs[j].id)

\* the same, for the pairs of segments whose ids are not array-index strings
StringTiesInEncounterOrder(segs, group) ==
    \A i, j \in 1..Len(segs) :
        (/\ i < j /\ segs[i].amount = segs[j].amount
         /\ IndexValue(segs[i].id) < 0 /\ IndexValue(segs[j].id) < 0)
            => FirstSeen(group, segs[i].id) < FirstSeen(group, segs[j].id)

RECURSIVE GroupCatSum(_, _)
GroupCatSum(group, id) ==
    IF group = <<>> THEN 0
    ELSE (IF CatId(Head(group)) = id THEN Head(group).amount ELSE 0)
         + GroupCatSum(Tail(group), id)

FirstWins(segs, group, defaultColor) ==
    \A i \in 1..Len(segs) :
        LET first == group[FirstSeen(group, segs[i].id)]
        IN  /\ segs[i].name = OrDefault(first.categories.name, "Sonstiges")
            /\ segs[i].color = OrDefault(first.categories.color, defaultColor)
            /\ segs[i].amount = GroupCatSum(group, segs[i].id)

\* C12: a segment's name and color are those of the first transaction of its
\* category met in the group; the later transactions of the category add only
\* to its amount.
C12_FirstWins ==
    /\ FirstWins(expenseSegments, Group("expense"), "#9CA3AF")
    /\ FirstWins(incomeSegments, Group("income"), "#7B61FF")

\* one expense segment built from two transactions that carry different names
\* and colors for the same category id
C12_Witness ==
    /\ Len(expenseSegments) = 1
    /\ LET g == Group("expense")
       IN  /\ Len(g) = 2
           /\ g[1].category_id = g[2].category_id
           /\ g[1].categories.name # g[2].categories.name
           /\ g[1].categories.color # g[2].categories.color
           /\ g[2].amount > 0
           /\ expenseSegments[1].name = g[1].categories.name

\* the number of segments with the id
CountId(segs, id) == Cardinality({i \in 1..Len(segs) : segs[i].id = id})

\* the category-less transactions of the selected month (by their date string)
\* and of the type make one segment 'other' that carries all their amounts
OneOtherSegment(segs, type) ==
    /\ CountId(segs, "other") <= 1
    /\ MonthCatSum(transactions, type, "other") > 0 =>
           \E i \in 1..Len(segs) :
               /\ segs[i].id = "other"
               /\ segs[i].amount = MonthCatSum(transactions, type, "other")

\* C13, for category-less transactions whose amounts do not sum to 0: all the
\* transactions of the selected month and flow without a category id are
\* aggregated into a single segment with id 'other'; none is dropped and there
\* is no second category-less segment.
C13_Original ==
    /\ OneOtherSegment(expenseSegments, "expense")
    /\ OneOtherSegment(incomeSegments, "income")

\* the sum of the amounts of the transactions of the selected month (by their
\* date string) and of the type
RECURSIVE MonthSum(_, _)
MonthSum(txs, type) ==
    IF txs = <<>> THEN 0
    ELSE (IF Head(txs).transaction_date.y = year /\ Head(txs).transaction_date.m = month
             /\ Head(txs).type = type
          THEN Head(txs).amount ELSE 0) + MonthSum(Tail(txs), type)

RECURSIVE SumAmounts(_)
SumAmounts(segs) ==
    IF segs = <<>> THEN 0 ELSE Head(segs).amount + SumAmounts(Tail(segs))

DistinctIds(segs) ==
    \A i, j \in 1..Len(segs) : segs[i].id = segs[j].id => i = j

\* C14: the amounts of the expense (income) segments sum to the amounts of all
\* the expense (income) transactions of the selected month, and each category
\* id appears in at most one segment.
C14_Original ==
    /\ SumAmounts(expenseSegments) = MonthSum(transactions, "expense")
    /\ SumAmounts(incomeSegments) = MonthSum(transactions, "income")
    /\ DistinctIds(expenseSegments) /\ DistinctIds(incomeSegments)

\* ---- claims about the month selection ----
\* the month of the instant `now` on the device, as a count of months
ReferenceMonth == LET d == LocalDate(now, tz) IN d.y * 12 + d.m

\* C15: the (year, month) resolved for the offset is the calendar month exactly
\* monthOffset months from the month that contains the reference date, for
\* every day of the month of the reference date.
C15_Original == year * 12 + month = ReferenceMonth + monthOffset

Clamp(x, lo, hi) == IF x < lo THEN lo ELSE IF x > hi THEN hi ELSE x

\* C16: for a non-empty aggregate sequence of length n the selected index is
\* clamp(n-1+offset, 0, n-1), a positive offset selects the last element, and
\* 'previous' is the element at selectedIndex-1, absent when selectedIndex = 0.
C16_SelectedIndex ==
    stats # <<>> =>
        /\ selectedIndex = Clamp((Len(stats) - 1) + monthOffset, 0, Len(stats) - 1)
        /\ monthOffset = 0 => selectedIndex = Len(stats) - 1
        /\ \A k \in 1..MaxBack : SelectedIndex(Len(stats), k) = Len(stats) - 1
        /\ previous = IF selectedIndex = 0 THEN NoStat ELSE stats[selectedIndex]

\* an offset that reaches before the first of two aggregates
C16_Witness ==
    /\ Len(stats) = 2 /\ monthOffset = 0 - 3
    /\ selectedIndex = 0 /\ previous = NoStat

\* C17: monthOffset is never above 0, and the selected month is never after
\* the current month.
C17_NeverFuture ==
    /\ monthOffset <= 0
    /\ year * 12 + month <= ReferenceMonth

\* the previous button was pressed twice and an earlier month is selected
C17_Witness == monthOffset = 0 - 2 /\ year * 12 + month < ReferenceMonth

\* C25: at every UTC offset a transaction dated on day d of the target month
\* (d not after today) is in the timeline and first affects the point labelled
\* day d, whose date field is day d too: that point carries the balance through
\* day d and the point before it the balance through day d - 1.
C25_Original ==
    \A d \in 1..DaysSoFar :
        HasTxOn(d) =>
            \E i \in 1..Len(points) :
                /\ points[i].label.day = d
                /\ points[i].date = Date(year, month, d)
                /\ points[i].balance = BalanceThrough(d)
                /\ i > 1 => points[i - 1].balance = BalanceThrough(d - 1)

\* C24: with one aggregate per consecutive calendar month ending with the
\* current month, the aggregate used as 'current' is the one of the calendar
\* month (year, month) that the timeline, the segments and the biggest
\* transaction use, for every offset the month selector reaches.
C24_Original ==
    stats # <<>> =>
        StatAt(stats, selectedIndex).month = [y |-> year, m |-> month]

\* ---- further claims about computeTimeline ----
\* the target month has transactions (by their date string), all of them dated
\* on its last day, and today is on or after that day
OnlyOnLastDay ==
    /\ HasTxInMonth
    /\ \A d \in 1..(LastDay - 1) : ~HasTxOn(d)
    /\ DayNum(Today.y, Today.m, Today.d) >= DayNum(year, month, LastDay)

\* C18 as stated: when every transaction of the target month is dated on the
\* month's last day and today is on or after that day, computeTimeline returns
\* exactly one point.
C18_Original == OnlyOnLastDay => Len(timelineData) = 1

\* C18: in that case computeTimeline returns, at a UTC offset <= 0, the
\* downsampled series of one point per day of the month, with balance 0 on
\* every day before the last and the month's signed sum on the last day, and
\* at a UTC offset > 0 the empty sequence.
C18_LastDayOnly ==
    OnlyOnLastDay =>
        /\ tz <= 0 =>
              /\ Len(points) = LastDay
              /\ \A i \in 1..(LastDay - 1) : points[i].balance = 0
              /\ points[LastDay].balance = BalanceThrough(LastDay)
              /\ Len(timelineData) = Cardinality(KeptIndices(LastDay))
              /\ timelineData[Len(timelineData)] = points[LastDay]
        /\ tz > 0 => timelineData = <<>>

\* December with transactions on the 31st only: 31 daily points, 16 returned
C18_Witness ==
    /\ OnlyOnLastDay /\ month = 11 /\ tz <= 0
    /\ Len(points) = 31 /\ Len(timelineData) = 16

\* C19: computeTimeline returns the empty sequence when no transaction is
\* dated inside the target month, and when the target month lies entirely
\* after today, whatever transactions it contains.
C19_EmptyCases ==
    /\ ~HasTxInMonth => points = <<>> /\ timelineData = <<>>
    /\ DayNum(Today.y, Today.m, Today.d) < DayNum(year, month, 1)
           => points = <<>> /\ timelineData = <<>>

\* a future month that has transactions, next to a transaction of another month
C19_Witness ==
    /\ DayNum(Today.y, Today.m, Today.d) < DayNum(year, month, 1)
    /\ HasTxInMonth
    /\ \E i \in 1..Len(transactions) : transactions[i].transaction_date.m # month
    /\ timelineData = <<>>

\* the permutations of 1..n
PermTable ==
    [n \in 0..MaxOrdTx |->
        {f \in [1..n -> 1..n] : \A i, j \in 1..n : f[i] = f[j] => i = j}]

Permuted(s, f) == [i \in 1..Len(s) |-> s[f[i]]]

InvocationInstants == {NoonOf(d, tz) : d \in Todays}

\* C21, for computeTimeline: an invocation with the same transactions, year
\* and month returns the result of the latest invocation, at whatever instant
\* it is made.
C21_Original ==
    \A t \in InvocationInstants :
        computeTimeline(transactions, year, month, tz, t) = timelineData

\* ---- claims about useRecurring ----
\* the date one period after the occurrence: the same day of the next month
\* (the last day of that month when it is shorter), or seven days later
OnePeriodLater(occurrence, frequency) ==
    IF frequency = "monthly"
    THEN LET q == occurrence.y * 12 + occurrence.m + 1
             y == q \div 12
             m == q % 12
         IN  Date(y, m, Min(occurrence.d, DaysInMonth(y, m)))
    ELSE DateOfDayNum(DayNum(occurrence.y, occurrence.m, occurrence.d) + 7)

\* a call of processDueTransactions has completed and every backend call of it
\* succeeded
RunSucceeded == run.pc = "done" /\ run.ok /\ run.due # <<>>

\* C22: a run that processes due items has inserted one transaction dated
\* today for every due item and has advanced each item's next_occurrence by one
\* period, one month for 'monthly' and seven days otherwise.
C22_Original ==
    RunSucceeded =>
        \A k \in 1..Len(run.due) :
            LET r == run.due[k]
            IN  /\ Cardinality({j \in 1..Len(insertedTx) :
                                   /\ insertedTx[j].item = r.id
                                   /\ insertedTx[j].occurrence = r.next_occurrence}) >= 1
                /\ recurringTable[r.id].next_occurrence
                       = OnePeriodLater(r.next_occurrence, r.frequency)

\* C28: no recurring item has two transactions inserted for one occurrence.
C28_Original ==
    \A j, k \in 1..Len(insertedTx) :
        (/\ insertedTx[j].item = insertedTx[k].item
         /\ insertedTx[j].occurrence = insertedTx[k].occurrence) => j = k

\* ---- claims about useBudgets ----
BudgetBasics(b) ==
    /\ 0 <= b.progress.num /\ b.progress.num <= b.progress.den
    /\ b.remaining >= 0
    /\ b.remaining = (IF b.limit - b.spent > 0 THEN b.limit - b.spent ELSE 0)
    /\ b.isOverspent <=> b.spent > b.limit

\* C23 as stated: for every budget row 0 <= progress <= 1, remaining =
\* max(0, limit - spent) >= 0, isOverspent holds iff spent > limit, and an
\* overspent budget shows progress 1 and remaining 0.
C23_Original ==
    \A k \in 1..Len(budgets) :
        /\ BudgetBasics(budgets[k])
        /\ budgets[k].isOverspent =>
               /\ budgets[k].progress.num = budgets[k].progress.den
               /\ budgets[k].remaining = 0

\* C23: the same, with progress 1 for an overspent budget whose limit is > 0
\* and progress 0 for an overspent budget whose limit is 0.
C23_BudgetRow ==
    \A k \in 1..Len(budgets) :
        /\ BudgetBasics(budgets[k])
        /\ budgets[k].isOverspent =>
               /\ budgets[k].remaining = 0
               /\ budgets[k].limit > 0 => budgets[k].progress.num = budgets[k].progress.den
               /\ budgets[k].limit = 0 => budgets[k].progress.num = 0

\* an overspent budget with a limit > 0 next to one that is not overspent
C23_Witness ==
    /\ Len(budgets) = 2
    /\ budgets[1].isOverspent /\ budgets[1].limit > 0
    /\ ~budgets[2].isOverspent /\ budgets[2].spent > 0

\* ---- claims about the data hooks ----
\* every call of fetchTransactions has been handled
AllHandled == \A i \in 1..Len(fetches) : fetches[i].state = "done"

\* C26: when several fetches of one user were in flight and all of them have
\* completed with data, transactions holds the result of the fetch that was
\* started last, whatever the order of the responses.
C26_Original ==
    (/\ Len(fetches) >= 2 /\ AllHandled
     /\ \A i \in 1..Len(fetches) : fetches[i].ok /\ fetches[i].user = userId)
    => transactions = fetches[Len(fetches)].data

\* C27: the exposed transactions are rows fetched for the current userId only,
\* and there are none when userId is undefined.
C27_Original ==
    /\ \A k \in 1..Len(transactions) : transactions[k].user_id = userId
    /\ userId = NULL => transactions = <<>>

\* C29: error is non-null only if the most recently completed fetch failed,
\* and loading is false after every completed fetch.
C29_Original ==
    LET done == Handled(fetches)
    IN  /\ error # NULL =>
               \E i \in done : fetches[i].seq = Cardinality(done) /\ ~fetches[i].ok
        /\ done # {} => loading = FALSE

\* ---- claims about the month-over-month deltas ----
RatEq(a, b) == a.num * b.den = b.num * a.den

\* the delta the claim states, from the aggregates themselves
StatedDelta(value, prevValue) ==
    IF stats # <<>> /\ selectedIndex > 0 /\ prevValue > 0
    THEN Rat((value - prevValue) * 100, prevValue)
    ELSE Rat(0, 1)

PreviousStat == IF selectedIndex > 0 /\ selectedIndex <= Len(stats)
                THEN stats[selectedIndex] ELSE NoStat

\* C30: incomeDelta (expenseDelta) is ((current - previous) / previous) * 100
\* when a previous aggregate exists with income (expenses) > 0 and exactly 0
\* otherwise; when the oldest available period is selected the insights hold
\* no expense spike, no expense drop and no income growth.
C30_Deltas ==
    /\ RatEq(incomeDelta, StatedDelta(income, PreviousStat.income))
    /\ RatEq(expenseDelta, StatedDelta(expenses, PreviousStat.expenses))
    /\ (stats = <<>> \/ selectedIndex = 0 \/ PreviousStat.income = 0) => incomeDelta.num = 0
    /\ (stats = <<>> \/ selectedIndex = 0 \/ PreviousStat.expenses = 0) => expenseDelta.num = 0
    /\ (stats = <<>> \/ selectedIndex = 0) => Kinds \cap {"spike", "drop", "growth"} = {}

\* the oldest of several periods is selected, it has income and expenses, and
\* the period after it shows an income growth
C30_Witness ==
    /\ Len(stats) >= 2 /\ monthOffset < 0 /\ selectedIndex = 0
    /\ income > 0 /\ expenses > 0 /\ insights # <<>>
    /\ stats[2].income * 100 > stats[1].income * 105

====
